---- MODULE Spec2Model ----
(***************************************************************************)
(* Model of cleanup_script.py: a script that reads one text file, drops    *)
(* the lines of the block delimited by a start marker and an end marker,   *)
(* and writes the remaining lines back to the same file.                   *)
(*                                                                         *)
(* The file is a flat sequence of characters.  readlines() is modelled by  *)
(* SplitLines, writelines() by Concat and the "in" operator by Contains,   *)
(* each computed the way Python computes it.  The two marker literals are  *)
(* abstracted to two-character strings that, like the literals of the      *)
(* script, do not overlap and are not substrings of one another.           *)
(***************************************************************************)
EXTENDS Integers, Sequences, FiniteSets, TLC

\* Bounds of the model.
MaxLines == 4
MaxRuns == 2

NL == "\n"

\* 'let angle = v1.angleTo(v2);' (abstracted)
StartMarker == <<"a", "b">>
\* 'targetRef.current.updateMatrixWorld();' (abstracted)
EndMarker == <<"c", "d">>

\* Line bodies the input files are built from: a plain line, a line with the
\* start marker, one with the end marker, one with both, and a near miss.
LineBodies ==
  { <<"x">>, <<"a", "b">>, <<"c", "d">>, <<"a", "b", "c", "d">>, <<"a", "c">> }

VARIABLES file, lines, new_lines, skip, found_start, i, pc, status,
          rhandle, whandle, orig, run, prev, writes

vars == <<file, lines, new_lines, skip, found_start, i, pc, status,
          rhandle, whandle, orig, run, prev, writes>>

----------------------------------------------------------------------------
\* Pure functions

\* Python: m in line
Contains(m, line) ==
  \E k \in 1..(Len(line) - Len(m) + 1) : SubSeq(line, k, k + Len(m) - 1) = m

\* f.writelines(ls): the strings are written one after another, nothing added
RECURSIVE Concat(_)
Concat(ls) ==
  IF ls = <<>> THEN <<>> ELSE Head(ls) \o Concat(Tail(ls))

\* index of the first newline of s, 0 if there is none
FirstNL(s) ==
  IF \E k \in 1..Len(s) : s[k] = NL
    THEN CHOOSE k \in 1..Len(s) : s[k] = NL /\ \A j \in 1..(k - 1) : s[j] # NL
    ELSE 0

\* f.readlines(): each line keeps its terminator; a last line may have none
RECURSIVE SplitLines(_)
SplitLines(s) ==
  IF s = <<>> THEN <<>>
  ELSE LET p == FirstNL(s)
       IN IF p = 0 THEN <<s>>
          ELSE <<SubSeq(s, 1, p)>> \o SplitLines(SubSeq(s, p + 1, Len(s)))

\* Variants of the loop body, each with one slip of the kind the loop invites.

\* "elif" instead of the second "if": the end test is skipped on the line
\* that has just set skip.
ScanStepElif(nl, sk, fs, line) ==
  IF ~sk /\ Contains(StartMarker, line)
    THEN [new_lines |-> nl, skip |-> TRUE, found_start |-> TRUE]
    ELSE IF sk /\ Contains(EndMarker, line)
           THEN [new_lines |-> nl, skip |-> FALSE, found_start |-> fs]
           ELSE IF sk
                  THEN [new_lines |-> nl, skip |-> sk, found_start |-> fs]
                  ELSE [new_lines |-> Append(nl, line), skip |-> sk, found_start |-> fs]

\* the "continue" is missing: the line that ends the block is kept
ScanStepNoContinue(nl, sk, fs, line) ==
  LET hit == Contains(StartMarker, line)
      fs1 == IF hit THEN TRUE ELSE fs
      sk1 == IF hit THEN TRUE ELSE sk
      sk2 == IF sk1 /\ Contains(EndMarker, line) THEN FALSE ELSE sk1
  IN [new_lines |-> IF ~sk2 THEN Append(nl, line) ELSE nl,
      skip |-> sk2, found_start |-> fs1]

\* the end test lacks "skip and": every end-marker line is dropped
ScanStepEndAnywhere(nl, sk, fs, line) ==
  LET hit == Contains(StartMarker, line)
      fs1 == IF hit THEN TRUE ELSE fs
      sk1 == IF hit THEN TRUE ELSE sk
  IN IF Contains(EndMarker, line)
       THEN [new_lines |-> nl, skip |-> FALSE, found_start |-> fs1]
       ELSE IF ~sk1
              THEN [new_lines |-> Append(nl, line), skip |-> sk1, found_start |-> fs1]
              ELSE [new_lines |-> nl, skip |-> sk1, found_start |-> fs1]

\* the append comes before the start test: the start-marker line is kept
ScanStepLateStart(nl, sk, fs, line) ==
  LET nl1 == IF ~sk THEN Append(nl, line) ELSE nl
      hit == Contains(StartMarker, line)
      fs1 == IF hit THEN TRUE ELSE fs
      sk1 == IF hit THEN TRUE ELSE sk
  IN [new_lines |-> nl1,
      skip |-> IF sk1 /\ Contains(EndMarker, line) THEN FALSE ELSE sk1,
      found_start |-> fs1]

\* skip is never set: only the start-marker line itself is dropped
ScanStepDropStartOnly(nl, sk, fs, line) ==
  IF Contains(StartMarker, line)
    THEN [new_lines |-> nl, skip |-> sk, found_start |-> TRUE]
    ELSE [new_lines |-> Append(nl, line), skip |-> sk, found_start |-> fs]

\* "skip = not skip" on a start marker
ScanStepToggle(nl, sk, fs, line) ==
  LET hit == Contains(StartMarker, line)
      fs1 == IF hit THEN TRUE ELSE fs
      sk1 == IF hit THEN ~sk ELSE sk
  IN IF sk1 /\ Contains(EndMarker, line)
       THEN [new_lines |-> nl, skip |-> FALSE, found_start |-> fs1]
       ELSE IF ~sk1
              THEN [new_lines |-> Append(nl, line), skip |-> sk1, found_start |-> fs1]
              ELSE [new_lines |-> nl, skip |-> sk1, found_start |-> fs1]

\* One pass of the body of the for loop over one line.
ScanStep(nl, sk, fs, line) ==
  LET hit == Contains(StartMarker, line)
      fs1 == IF hit THEN TRUE ELSE fs
      sk1 == IF hit THEN TRUE ELSE sk
  IN IF sk1 /\ Contains(EndMarker, line)
       THEN [new_lines |-> nl, skip |-> FALSE, found_start |-> fs1]
       ELSE IF ~sk1
              THEN [new_lines |-> Append(nl, line), skip |-> sk1, found_start |-> fs1]
              ELSE [new_lines |-> nl, skip |-> sk1, found_start |-> fs1]

\* The locals after new_lines = [], skip = False, found_start = False
InitScan == [new_lines |-> <<>>, skip |-> FALSE, found_start |-> FALSE]

\* the write branch taken whatever found_start is
ShouldWriteAlways(fs) == TRUE

\* if found_start:
ShouldWrite(fs) == fs

----------------------------------------------------------------------------
\* Input files

RECURSIVE SeqsUpTo(_, _)
SeqsUpTo(S, n) ==
  IF n = 0 THEN { <<>> }
  ELSE LET shorter == SeqsUpTo(S, n - 1)
       IN shorter \cup { Append(q, x) : q \in { r \in shorter : Len(r) = n - 1 }, x \in S }

\* Files of at most MaxLines lines; the last line may lack its terminator.
InputFiles ==
  LET terminated == { Append(b, NL) : b \in LineBodies }
      full == SeqsUpTo(terminated, MaxLines)
  IN { Concat(ls) : ls \in full }
     \cup { Concat(ls) \o b : ls \in { q \in full : Len(q) < MaxLines }, b \in LineBodies }

----------------------------------------------------------------------------
\* The script

Init ==
  /\ file \in InputFiles
  /\ orig = file
  /\ lines = <<>>
  /\ new_lines = <<>>
  /\ skip = FALSE
  /\ found_start = FALSE
  /\ i = 0
  /\ pc = "open_r"
  /\ status = "none"
  /\ rhandle = FALSE
  /\ whandle = FALSE
  /\ run = 1
  /\ prev = "none"
  /\ writes = 0

\* with open(file_path, 'r', encoding='utf-8') as f:
OpenRead ==
  /\ pc = "open_r"
  /\ rhandle' = TRUE
  /\ pc' = "readlines"
  /\ UNCHANGED <<file, lines, new_lines, skip, found_start, i, status, whandle, orig, run, prev, writes>>

\* lines = f.readlines()
ReadLines ==
  /\ pc = "readlines"
  /\ lines' = SplitLines(file)
  /\ pc' = "close_r"
  /\ UNCHANGED <<file, new_lines, skip, found_start, i, status, rhandle, whandle, orig, run, prev, writes>>

\* the read handle is left open
CloseReadLeak ==
  /\ pc = "close_r"
  /\ pc' = "init"
  /\ UNCHANGED <<file, lines, new_lines, skip, found_start, i, status, rhandle, whandle, orig, run, prev, writes>>

\* leaving the with block closes the read handle
CloseRead ==
  /\ pc = "close_r"
  /\ rhandle' = FALSE
  /\ pc' = "init"
  /\ UNCHANGED <<file, lines, new_lines, skip, found_start, i, status, whandle, orig, run, prev, writes>>

\* new_lines = []; skip = False; found_start = False
InitLocals ==
  /\ pc = "init"
  /\ new_lines' = InitScan.new_lines
  /\ skip' = InitScan.skip
  /\ found_start' = InitScan.found_start
  /\ i' = 0
  /\ pc' = "loop"
  /\ UNCHANGED <<file, lines, status, rhandle, whandle, orig, run, prev, writes>>

\* one iteration of: for i, line in enumerate(lines)
LoopBody ==
  /\ pc = "loop"
  /\ i < Len(lines)
  /\ LET st == ScanStep(new_lines, skip, found_start, lines[i + 1])
     IN /\ new_lines' = st.new_lines
        /\ skip' = st.skip
        /\ found_start' = st.found_start
  /\ i' = i + 1
  /\ UNCHANGED <<file, lines, pc, status, rhandle, whandle, orig, run, prev, writes>>

\* the for loop is exhausted
LoopExit ==
  /\ pc = "loop"
  /\ i = Len(lines)
  /\ pc' = "branch"
  /\ UNCHANGED <<file, lines, new_lines, skip, found_start, i, status, rhandle, whandle, orig, run, prev, writes>>

\* if found_start: ... else: ...
IfFoundStart ==
  /\ pc = "branch"
  /\ pc' = IF ShouldWrite(found_start) THEN "open_w" ELSE "print_nf"
  /\ UNCHANGED <<file, lines, new_lines, skip, found_start, i, status, rhandle, whandle, orig, run, prev, writes>>

\* with open(file_path, 'w', encoding='utf-8') as f:  (mode 'w' truncates)
OpenWrite ==
  /\ pc = "open_w"
  /\ whandle' = TRUE
  /\ file' = <<>>
  /\ pc' = "writelines"
  /\ UNCHANGED <<lines, new_lines, skip, found_start, i, status, rhandle, orig, run, prev, writes>>

\* f.writelines(new_lines)
WriteLines ==
  /\ pc = "writelines"
  /\ file' = file \o Concat(new_lines)
  /\ writes' = writes + 1
  /\ pc' = "close_w"
  /\ UNCHANGED <<lines, new_lines, skip, found_start, i, status, rhandle, whandle, orig, run, prev>>

\* leaving the with block closes the write handle
CloseWrite ==
  /\ pc = "close_w"
  /\ whandle' = FALSE
  /\ pc' = "print_ok"
  /\ UNCHANGED <<file, lines, new_lines, skip, found_start, i, status, rhandle, orig, run, prev, writes>>

\* print("Successfully removed duplicate block.")
PrintSuccess ==
  /\ pc = "print_ok"
  /\ status' = "success"
  /\ pc' = "done"
  /\ UNCHANGED <<file, lines, new_lines, skip, found_start, i, rhandle, whandle, orig, run, prev, writes>>

\* print("Could not find the duplicate block start.")
PrintNotFound ==
  /\ pc = "print_nf"
  /\ status' = "not found"
  /\ pc' = "done"
  /\ UNCHANGED <<file, lines, new_lines, skip, found_start, i, rhandle, whandle, orig, run, prev, writes>>

\* The script is run again, on the file the previous run left.
Rerun ==
  /\ pc = "done"
  /\ run < MaxRuns
  /\ run' = run + 1
  /\ prev' = status
  /\ orig' = file
  /\ status' = "none"
  /\ writes' = 0
  /\ lines' = <<>>
  /\ new_lines' = <<>>
  /\ skip' = FALSE
  /\ found_start' = FALSE
  /\ i' = 0
  /\ pc' = "open_r"
  /\ UNCHANGED <<file, rhandle, whandle>>

Next ==
  \/ OpenRead
  \/ ReadLines
  \/ CloseRead
  \/ InitLocals
  \/ LoopBody
  \/ LoopExit
  \/ IfFoundStart
  \/ OpenWrite
  \/ WriteLines
  \/ CloseWrite
  \/ PrintSuccess
  \/ PrintNotFound
  \/ Rerun

Spec == Init /\ [][Next]_vars

----------------------------------------------------------------------------
\* Vocabulary of the properties

HasStart(l) == Contains(StartMarker, l)
HasEnd(l) == Contains(EndMarker, l)

\* the lines of the file as it was when this run began
InputLines == SplitLines(orig)

StartIdx == { k \in 1..Len(InputLines) : HasStart(InputLines[k]) }
FirstStart == CHOOSE k \in StartIdx : \A j \in StartIdx : k <= j
EndsAfter(s) == { k \in (s + 1)..Len(InputLines) : HasEnd(InputLines[k]) }
FirstEndAfter(s) == CHOOSE k \in EndsAfter(s) : \A j \in EndsAfter(s) : k <= j

\* the input without the lines s..e
Without(s, e) ==
  SubSeq(InputLines, 1, s - 1) \o SubSeq(InputLines, e + 1, Len(InputLines))

\* the locals of the scan hold values of this run
Scanning == pc \notin {"open_r", "readlines", "close_r", "init"}
\* every line has been scanned
Scanned == Scanning /\ pc # "loop"

----------------------------------------------------------------------------
\* C1: when no line of the input contains the start marker, the run never
\* writes: the file stays identical to the input in every state, success is
\* never reported, and the run ends with the status "not found".
C1_AbsentStartNoWrite ==
  StartIdx = {} =>
    /\ file = orig
    /\ writes = 0
    /\ ~whandle
    /\ status # "success"
    /\ pc = "done" => status = "not found"

C1_Witness ==
  /\ StartIdx = {}
  /\ Len(InputLines) >= 2
  /\ \E k \in 1..Len(InputLines) : HasEnd(InputLines[k])
  /\ pc = "done"
  /\ status = "not found"

----------------------------------------------------------------------------
\* C2 as stated: exactly one line s contains the start marker and exactly one
\* line e > s contains the end marker; then the finished run has written the
\* input without the lines s..e and reports success.
C2_Pre ==
  /\ Cardinality(StartIdx) = 1
  /\ Cardinality(EndsAfter(FirstStart)) = 1

C2_Result ==
  /\ status = "success"
  /\ file = Concat(Without(FirstStart, FirstEndAfter(FirstStart)))

C2_AsStated == (C2_Pre /\ pc = "done") => C2_Result

\* C2 amended: the same, for inputs whose start-marker line s does not itself
\* contain the end marker.
C2_SingleBlockRemoved ==
  (C2_Pre /\ ~HasEnd(InputLines[FirstStart]) /\ pc = "done") => C2_Result

C2_Witness ==
  /\ C2_Pre
  /\ ~HasEnd(InputLines[FirstStart])
  /\ FirstStart > 1
  /\ FirstEndAfter(FirstStart) > FirstStart + 1
  /\ pc = "done"
  /\ status = "success"
  /\ file # <<>>

----------------------------------------------------------------------------
\* C3 as stated: when the input contains the start marker, the finished run
\* has written the input without one run of lines, the one from the first
\* start-marker line s through the next end-marker line (the end of the file
\* when there is none), and every other line is kept, later start-marker
\* lines included.  "Next" is read either way: the first end-marker line
\* after s, or the first one at or after s.
C3_AsStated ==
  (StartIdx # {} /\ pc = "done") =>
    LET s == FirstStart
        e == IF EndsAfter(s) = {} THEN Len(InputLines) ELSE FirstEndAfter(s)
    IN \/ file = Concat(Without(s, e))
       \/ HasEnd(InputLines[s]) /\ file = Concat(Without(s, s))

\* line k of ls is dropped: some start-marker line at or before it is not
\* followed by an end-marker line before k
Dropped(ls, k) ==
  \E j \in 1..k : /\ HasStart(ls[j])
                  /\ \A m \in j..(k - 1) : ~HasEnd(ls[m])

RECURSIVE KeptFrom(_, _)
KeptFrom(ls, k) ==
  IF k > Len(ls) THEN <<>>
  ELSE (IF Dropped(ls, k) THEN <<>> ELSE <<ls[k]>>) \o KeptFrom(ls, k + 1)

\* C3 amended: the finished run has written the input without every block,
\* a block being opened by any start-marker line and running through the
\* first end-marker line at or after it (the end of the file when there is
\* none); the lines before the first start-marker line, and every line that
\* lies in no block, are kept verbatim and in order.
C3_EveryBlockRemoved ==
  (StartIdx # {} /\ pc = "done") =>
    /\ status = "success"
    /\ file = Concat(KeptFrom(InputLines, 1))
    /\ SubSeq(SplitLines(file), 1, FirstStart - 1) = SubSeq(InputLines, 1, FirstStart - 1)

\* two blocks were removed, and a line between them kept
C3_Witness ==
  /\ StartIdx # {}
  /\ pc = "done"
  /\ status = "success"
  /\ \E k \in 1..Len(InputLines), m \in 1..Len(InputLines) :
       /\ FirstStart < k
       /\ k < m
       /\ ~Dropped(InputLines, k)
       /\ HasStart(InputLines[m])
  /\ file # <<>>

----------------------------------------------------------------------------
\* C4: a run that follows a successful run reports "not found" and leaves
\* the file as it found it; no line a successful run has written contains
\* the start marker.
C4_SecondRunNotFound ==
  /\ (prev = "success" /\ pc = "done") => (status = "not found" /\ file = orig)
  /\ prev = "success" => (file = orig /\ writes = 0)
  /\ (pc = "done" /\ status = "success") =>
        \A k \in 1..Len(SplitLines(file)) : ~HasStart(SplitLines(file)[k])

C4_Witness ==
  /\ run = 2
  /\ prev = "success"
  /\ pc = "done"
  /\ status = "not found"
  /\ Len(SplitLines(file)) >= 2

----------------------------------------------------------------------------
\* C5: when the start marker is on the last line of the input and on no line
\* before it, the finished run has written the input without its last line
\* and reports success.
C5_Pre == StartIdx = { Len(InputLines) }

C5_StartOnLastLine ==
  (C5_Pre /\ pc = "done") =>
    /\ status = "success"
    /\ file = Concat(SubSeq(InputLines, 1, Len(InputLines) - 1))

C5_Witness ==
  /\ C5_Pre
  /\ Len(InputLines) >= 3
  /\ pc = "done"
  /\ status = "success"
  /\ file # <<>>

----------------------------------------------------------------------------
\* C6: when the input contains the start marker and no line from the first
\* start-marker line on contains the end marker, the scan ends with the
\* skip flag set and with exactly the lines before the first start-marker
\* line as its output, and the finished run has written those lines and
\* reports success.
C6_Pre ==
  /\ StartIdx # {}
  /\ \A k \in FirstStart..Len(InputLines) : ~HasEnd(InputLines[k])

C6_UnterminatedBlock ==
  C6_Pre =>
    /\ Scanned => (skip /\ found_start /\ new_lines = SubSeq(InputLines, 1, FirstStart - 1))
    /\ pc = "done" =>
         /\ status = "success"
         /\ file = Concat(SubSeq(InputLines, 1, FirstStart - 1))

C6_Witness ==
  /\ C6_Pre
  /\ FirstStart > 1
  /\ FirstStart < Len(InputLines)
  /\ pc = "done"
  /\ status = "success"
  /\ skip

----------------------------------------------------------------------------
\* The two-state machine of the design document (Searching / Skipping): four
\* mutually exclusive cases per line.
MachineStep(st, line) ==
  IF ~st.skip /\ HasStart(line)
    THEN [new_lines |-> st.new_lines, skip |-> TRUE, found_start |-> TRUE]
    ELSE IF st.skip /\ HasEnd(line)
           THEN [st EXCEPT !.skip = FALSE]
           ELSE IF st.skip
                  THEN st
                  ELSE [st EXCEPT !.new_lines = Append(st.new_lines, line)]

RECURSIVE MachineScan(_)
MachineScan(ls) ==
  IF ls = <<>> THEN [new_lines |-> <<>>, skip |-> FALSE, found_start |-> FALSE]
  ELSE MachineStep(MachineScan(SubSeq(ls, 1, Len(ls) - 1)), ls[Len(ls)])

\* The same machine, except that a line which opens the block and also
\* contains the end marker closes it again at once.
MachineStepOneLine(st, line) ==
  IF ~st.skip /\ HasStart(line)
    THEN [new_lines |-> st.new_lines, skip |-> ~HasEnd(line), found_start |-> TRUE]
    ELSE MachineStep(st, line)

RECURSIVE MachineScanOneLine(_)
MachineScanOneLine(ls) ==
  IF ls = <<>> THEN [new_lines |-> <<>>, skip |-> FALSE, found_start |-> FALSE]
  ELSE MachineStepOneLine(MachineScanOneLine(SubSeq(ls, 1, Len(ls) - 1)), ls[Len(ls)])

ScanState == [new_lines |-> new_lines, skip |-> skip, found_start |-> found_start]

\* C7 as stated: after every scanned line the script's output, skip flag and
\* found_start are those of the two-state machine run on the lines scanned
\* so far.
C7_AsStated == Scanning => ScanState = MachineScan(SubSeq(lines, 1, i))

\* C7 amended: after every scanned line the script's output, skip flag and
\* found_start are those of the two-state machine in which a line that
\* contains both markers and is met outside the block is dropped and leaves
\* the machine outside the block; a line with the start marker and no end
\* marker met outside the block leaves it inside.
C7_MachineWithOneLineBlock ==
  /\ Scanning => ScanState = MachineScanOneLine(SubSeq(lines, 1, i))
  /\ (Scanning /\ i > 0 /\ HasStart(lines[i]) /\ ~HasEnd(lines[i])) => skip

\* a line with both markers was scanned outside the block, and then a line
\* that was kept
C7_Witness ==
  /\ pc = "loop"
  /\ i >= 3
  /\ ~HasStart(lines[i - 2])
  /\ new_lines = <<lines[i - 2], lines[i]>>
  /\ HasStart(lines[i - 1])
  /\ HasEnd(lines[i - 1])
  /\ found_start
  /\ ~skip

----------------------------------------------------------------------------
\* the lines a line with the start marker is compared with: no start marker,
\* the end marker if and only if l has it
Unmarked(l) ==
  { Append(b, NL) : b \in { c \in LineBodies : ~HasStart(c) /\ (HasEnd(c) <=> HasEnd(l)) } }

\* C8: a line with the start marker that is scanned while skip is set is not
\* appended to the output and leaves found_start as it is; the block ends on
\* it exactly if it contains the end marker; and the scan goes on as it would
\* after a line without the start marker.
C8_StartInsideBlock ==
  [][(pc = "loop" /\ i < Len(lines) /\ skip /\ HasStart(lines[i + 1])) =>
       /\ new_lines' = new_lines
       /\ found_start' = found_start
       /\ skip' = ~HasEnd(lines[i + 1])
       /\ \A r \in Unmarked(lines[i + 1]) :
            ScanState' = ScanStep(new_lines, skip, found_start, r)]_vars

\* two start-marker lines in one block, which ended on the first end-marker
\* line after them
C8_Witness ==
  /\ pc = "loop"
  /\ i = 4
  /\ HasStart(lines[1]) /\ ~HasEnd(lines[1])
  /\ HasStart(lines[2]) /\ ~HasEnd(lines[2])
  /\ HasEnd(lines[3]) /\ ~HasStart(lines[3])
  /\ new_lines = <<lines[4]>>
  /\ ~skip

----------------------------------------------------------------------------
\* no write has begun in this run
BeforeWrite ==
  \/ pc \in {"open_r", "readlines", "close_r", "init", "loop", "branch", "open_w", "print_nf"}
  \/ pc = "done" /\ status = "not found"

\* C9: the two handles are never open together and the read handle is closed
\* in the whole write phase; a run writes at most once, and only after the
\* last line was scanned and with found_start set; as long as no write has
\* begun the file is the one the run found.
C9_ReadThenWriteOnce ==
  /\ ~(rhandle /\ whandle)
  /\ ~BeforeWrite => ~rhandle
  /\ pc = "open_w" => ~rhandle
  /\ writes <= 1
  /\ (writes > 0 \/ whandle \/ ~BeforeWrite \/ pc = "open_w") =>
        (Scanned /\ i = Len(lines) /\ found_start)
  /\ BeforeWrite => (file = orig /\ writes = 0 /\ ~whandle)

C9_Witness ==
  /\ pc = "close_w"
  /\ whandle
  /\ writes = 1
  /\ file # orig
  /\ file # <<>>

----------------------------------------------------------------------------
RECURSIVE IsSubseq(_, _)
IsSubseq(a, b) ==
  IF a = <<>> THEN TRUE
  ELSE IF b = <<>> THEN FALSE
  ELSE IF Head(a) = Head(b) THEN IsSubseq(Tail(a), Tail(b))
  ELSE IsSubseq(a, Tail(b))

C10_Subsequence == Scanning => IsSubseq(new_lines, SubSeq(lines, 1, i))

C10_Step ==
  (pc = "loop" /\ i < Len(lines)) =>
    /\ new_lines' \in { new_lines, Append(new_lines, lines[i + 1]) }
    /\ (~skip /\ ~HasStart(lines[i + 1])) => new_lines' = Append(new_lines, lines[i + 1])

\* C10: after every scanned line the output is a subsequence, in order, of
\* the lines scanned so far; an iteration leaves the output as it is or
\* appends the scanned line unchanged, and it appends it whenever skip is off
\* and the line has no start marker.
C10_OnlyWholeLinesDropped == [](C10_Subsequence) /\ [][C10_Step]_vars

C10_Witness ==
  /\ pc = "loop"
  /\ i = 4
  /\ Len(new_lines) = 2
  /\ new_lines[1] # new_lines[2]
  /\ HasEnd(new_lines[1])

====
